---- MODULE Spec2Model ----
(***************************************************************************)
(* FilmMatch backend match service (backend/src/services/match.service.ts) *)
(* as a state machine over the UserMatch table.  Every exported function   *)
(* is a request handler; a handler is split at its awaits, one action per  *)
(* ORM query, so that the queries of concurrent requests interleave.       *)
(***************************************************************************)
EXTENDS Integers, Sequences, FiniteSets, TLC

\* ------------------------------------------------------------------ bounds
\* Movie rows 1..MaxMovie exist; id MaxMovie + 1 is requested but has no row.
MaxMovie == 2
\* UserMatch rows the table holds at one time.
MaxRows == 2
\* Largest limit a request passes.
MaxLimit == 2
\* Milliseconds the database clock advances.
MaxNow == 1

\* ------------------------------------------------------------- the database
Users == {1, 2}
Procs == {1, 2}
Movies == 1..MaxMovie
MovieIds == 1..(MaxMovie + 1)
MatchStatus == {"like", "dislike", "superlike"}

\* prisma's null: what findUnique returns when no row matches
Null == [type |-> "null"]

\* the value a handler returns / the error it throws
Ok(value) == [type |-> "ok", value |-> value]
AppError(message, statusCode) ==
    [type |-> "AppError", message |-> message, statusCode |-> statusCode]
\* an error of the ORM itself (P2002 unique constraint, P2025 record not found)
PrismaError(code) == [type |-> "PrismaError", code |-> code]
TypeError == [type |-> "TypeError"]

VARIABLES
    userMatch,        \* the UserMatch table: a set of rows
    now,              \* the database clock, in milliseconds
    userPreferences,  \* the UserPreferences table: userId -> row or Null
    req,              \* per request slot: handler, position, arguments, locals, result
    pager,            \* a client reading the matchlist page by page
    sh,               \* one run of shuffle(): its arrays, loop index and position
    \* frontend, useMovieRatings
    ratings,          \* useState<UserRating[]>: the list the hook returns
    loading,          \* useState(false)
    error,            \* useState<Error | null>
    repository,       \* what the local IUserDataRepository holds
    calls,            \* per call slot: the hook function running, its position, locals
    mount,            \* the effect that loads the ratings on mount
    \* frontend, MovieListContainer
    discoverMovies,   \* useMatches().discoverMovies: the list the discover query holds
    currentMovieIndex,\* useState(0)
    showMatchModal,   \* useState(false)
    matchedMovie,     \* useState<Movie | null>(null)
    mutations,        \* the createMatch requests on their way
    stale             \* the discover query is invalidated and not yet refetched

\* the state of useMovieRatings and of the repository under it
hook == <<ratings, loading, error, repository, calls, mount>>

\* the state of MovieListContainer and of the queries under it
screen == <<discoverMovies, currentMovieIndex, showMatchModal, matchedMovie,
            mutations, stale>>

\* the state of the browser
frontend == <<hook, screen>>

\* the state of the server
backend == <<userMatch, now, userPreferences, req, pager, sh>>

vars == <<userMatch, now, userPreferences, req, pager, sh, frontend>>

\* the state only getMatchlist's caller, shuffle's own run and the browser touch
rest == <<pager, sh, frontend>>

Idle == [op |-> "idle"]

\* rows of the table selected by the compound unique key userId_movieId
MatchesOf(table, userId, movieId) ==
    {r \in table : r.userId = userId /\ r.movieId = movieId}

\* prisma.userMatch.findUnique({ where: { userId_movieId } })
findUniqueMatch(table, userId, movieId) ==
    IF MatchesOf(table, userId, movieId) = {} THEN Null
    ELSE CHOOSE r \in MatchesOf(table, userId, movieId) : TRUE

\* a lookup that answers with a movie whatever the id
findUniqueMovie_always(movieId) == [id |-> movieId]

\* prisma.movie.findUnique({ where: { id } })
findUniqueMovie(movieId) == IF movieId \in Movies THEN [id |-> movieId] ELSE Null

\* a UserMatch row; createdAt is @default(now())
MatchRow(userId, movieId, status, createdAt) ==
    [userId |-> userId, movieId |-> movieId, status |-> status,
     createdAt |-> createdAt]

\* an update that writes nothing
updateStatus_lost(table, userId, movieId, status) == table

\* UPDATE "UserMatch" SET status = ... WHERE (userId, movieId) = ...
updateStatus(table, userId, movieId, status) ==
    {IF r.userId = userId /\ r.movieId = movieId
        THEN [r EXCEPT !.status = status] ELSE r : r \in table}

\* a delete by the user alone
deleteRows_byUser(table, userId, movieId) == {r \in table : r.userId # userId}

\* DELETE FROM "UserMatch" WHERE (userId, movieId) = ...
deleteRows(table, userId, movieId) == table \ MatchesOf(table, userId, movieId)

\* the slot p takes value r, every other slot keeps its own
Set(p, r) == [req EXCEPT ![p] = r]

At(p, op, pc) == req[p].op = op /\ req[p].pc = pc

\* -------------------------------------------------------------- upsertMatch
\* lines 18-24: look the movie up, throw 404 when it does not exist
upsertMatch_findMovie(p, userId, movieId, status) ==
    /\ req[p] = Idle
    /\ LET call == [op |-> "upsertMatch", userId |-> userId, movieId |-> movieId,
                    status |-> status]
       IN  req' = Set(p, IF findUniqueMovie(movieId) = Null
                         THEN call @@ [pc |-> "done",
                                       result |-> AppError("Movie not found", 404)]
                         ELSE call @@ [pc |-> "upsert"])
    /\ UNCHANGED <<userMatch, now, userPreferences, rest>>

\* lines 26-35, first statement of prisma's upsert: the query reads a relation
\* (include: { movie: true }), so the ORM selects the row by its unique key and
\* then inserts or updates in a second statement
upsertMatch_select(p) ==
    /\ At(p, "upsertMatch", "upsert")
    /\ req' = Set(p, [req[p] EXCEPT !.pc = "write"] @@
                     [found |-> findUniqueMatch(userMatch, req[p].userId,
                                                req[p].movieId) # Null])
    /\ UNCHANGED <<userMatch, now, userPreferences, rest>>

\* an insert into a table without the unique index
insertRow_noIndex(table, row) == [error |-> "", table |-> table \cup {row}]

\* INSERT INTO "UserMatch": the unique index behind the compound key
\* userId_movieId (lines 27-29) rejects a second row of a pair with P2002
insertRow(table, row) ==
    IF MatchesOf(table, row.userId, row.movieId) # {}
    THEN [error |-> "P2002", table |-> table]
    ELSE [error |-> "", table |-> table \cup {row}]

\* the update of a row that is gone finds no record (P2025)
updateRow(table, userId, movieId, status) ==
    IF MatchesOf(table, userId, movieId) = {}
    THEN [error |-> "P2025", table |-> table]
    ELSE [error |-> "", table |-> updateStatus(table, userId, movieId, status)]

\* lines 30-31, the upsert's second statement: update { status } when the first
\* statement found the row, create { userId, movieId, status } when it did not
upsertWrite(table, found, userId, movieId, status, createdAt) ==
    IF found
    THEN updateRow(table, userId, movieId, status)
    ELSE insertRow(table, MatchRow(userId, movieId, status, createdAt))

\* lines 26-35, second statement, run against the table as it is by now
upsertMatch_write(p) ==
    /\ At(p, "upsertMatch", "write")
    /\ LET r == req[p]
           w == upsertWrite(userMatch, r.found, r.userId, r.movieId, r.status, now)
           done(res) == [op |-> r.op, pc |-> "done", userId |-> r.userId,
                         movieId |-> r.movieId, status |-> r.status, result |-> res]
       IN  IF w.error # ""
           THEN /\ req' = Set(p, done(PrismaError(w.error)))
                /\ UNCHANGED userMatch
           ELSE /\ Cardinality(w.table) <= MaxRows
                /\ userMatch' = w.table
                /\ req' = Set(p, done(Ok(findUniqueMatch(w.table, r.userId,
                                                         r.movieId))))
    /\ UNCHANGED <<now, userPreferences, rest>>

\* ----------------------------------------------------------- getMatchStatus
\* lines 85-91
getMatchStatus(p, userId, movieId) ==
    /\ req[p] = Idle
    /\ req' = Set(p, [op |-> "getMatchStatus", pc |-> "done", userId |-> userId,
                      movieId |-> movieId,
                      result |-> Ok(findUniqueMatch(userMatch, userId, movieId))])
    /\ UNCHANGED <<userMatch, now, userPreferences, rest>>

\* -------------------------------------------------------------- deleteMatch
\* lines 198-206: look the match up, throw 404 when there is none
deleteMatch_findUnique(p, userId, movieId) ==
    /\ req[p] = Idle
    /\ LET call == [op |-> "deleteMatch", userId |-> userId, movieId |-> movieId]
       IN  req' = Set(p, IF findUniqueMatch(userMatch, userId, movieId) = Null
                         THEN call @@ [pc |-> "done",
                                       result |-> AppError("Match not found", 404)]
                         ELSE call @@ [pc |-> "delete"])
    /\ UNCHANGED <<userMatch, now, userPreferences, rest>>

\* lines 208-212: delete by the unique key; prisma's delete throws P2025 when
\* the row is gone by now
deleteMatch_delete(p) ==
    /\ At(p, "deleteMatch", "delete")
    /\ LET r == req[p]
           row == findUniqueMatch(userMatch, r.userId, r.movieId)
           done(res) == [op |-> r.op, pc |-> "done", userId |-> r.userId,
                         movieId |-> r.movieId, result |-> res]
       IN  IF row = Null
           THEN /\ req' = Set(p, done(PrismaError("P2025")))
                /\ UNCHANGED userMatch
           ELSE /\ userMatch' = deleteRows(userMatch, r.userId, r.movieId)
                /\ req' = Set(p, done(Ok(row)))
    /\ UNCHANGED <<now, userPreferences, rest>>

\* ------------------------------------------------------------------ shuffle
Min(a, b) == IF a < b THEN a ELSE b

\* the swap written as two assignments without a temporary
swap_overwrite(result, i, j) == [result EXCEPT ![i] = result[j], ![j] = result[j]]

\* line 103: [result[i], result[j]] = [result[j], result[i]]  (1-based here)
swap(result, i, j) == [result EXCEPT ![i] = result[j], ![j] = result[i]]

\* line 100: const result = [...items], a new array holding the same elements
copyArray(items) == [result |-> items, alias |-> FALSE]

\* line 102: j = Math.floor(Math.random() * (i + 1)), any index from the first
\* up to i itself (Math.random() is in [0, 1))
randomIndex(i) == 1..i

\* lines 101-104 from loop index i on: every array the remaining draws can give
RECURSIVE shuffleFrom(_, _)
shuffleFrom(result, i) ==
    IF i > 1
    THEN UNION {shuffleFrom(swap(result, i, j), i - 1) : j \in randomIndex(i)}
    ELSE {result}

\* lines 99-106: the arrays shuffle(items) can return
shuffle(items) == shuffleFrom(copyArray(items).result, Len(items))

\* a slice that keeps one element too many
slice_offByOne(items, end) == SubSeq(items, 1, Min(end + 1, Len(items)))

\* Array.prototype.slice(0, end)
slice(items, end) == SubSeq(items, 1, Min(end, Len(items)))

\* the same function one statement at a time
shuffle_copy ==
    /\ sh.pc = "call"
    /\ sh' = [sh EXCEPT !.pc = "loop", !.result = copyArray(sh.items).result,
                        !.alias = copyArray(sh.items).alias, !.i = Len(sh.items)]
    /\ UNCHANGED <<userMatch, now, userPreferences, req, pager, frontend>>

shuffle_swap(j) ==
    /\ sh.pc = "loop"
    /\ sh.i > 1
    /\ j \in randomIndex(sh.i)
    /\ sh' = [sh EXCEPT !.result = swap(sh.result, sh.i, j),
                        \* an array that is the argument itself changes with it
                        !.items = IF sh.alias THEN swap(sh.result, sh.i, j)
                                              ELSE sh.items,
                        !.i = sh.i - 1]
    /\ UNCHANGED <<userMatch, now, userPreferences, req, pager, frontend>>

shuffle_return ==
    /\ sh.pc = "loop"
    /\ ~(sh.i > 1)
    /\ sh' = [sh EXCEPT !.pc = "done"]
    /\ UNCHANGED <<userMatch, now, userPreferences, req, pager, frontend>>

\* -------------------------------------------------------- getDiscoverMovies
\* the Category names of a movie (Movie.categories[].category.name)
categories(movieId) ==
    CASE movieId % 3 = 1 -> {"Action"}
      [] movieId % 3 = 2 -> {"Drama"}
      [] OTHER           -> {"Action", "Drama"}

\* the texts the favoriteGenres column holds in this model
FavoriteGenresTexts == {"", "[]", "[\"Action\"]", "Action", "null"}

\* JSON.parse on those texts: a value, or SyntaxError for text that is no JSON
JSONparse(text) ==
    CASE text = "[]"            -> [type |-> "array", items |-> <<>>]
      [] text = "[\"Action\"]"  -> [type |-> "array", items |-> <<"Action">>]
      [] text = "null"          -> Null
      [] OTHER                  -> [type |-> "SyntaxError"]

\* lines 127-134: favoriteGenres stays [] without a row, with an empty (falsy)
\* column and when JSON.parse throws
parseFavoriteGenres(row) ==
    IF row # Null /\ row.favoriteGenres # ""
    THEN IF JSONparse(row.favoriteGenres).type = "SyntaxError"
         THEN [type |-> "array", items |-> <<>>]
         ELSE JSONparse(row.favoriteGenres)
    ELSE [type |-> "array", items |-> <<>>]

Range(f) == {f[x] : x \in DOMAIN f}

\* the relation filter left out of the where clause
noneMatches_omitted(table, userId, movieId) == TRUE

\* the relation filter without the user: none: {}
noneMatches_anyUser(table, userId, movieId) ==
    \A r \in table : r.movieId # movieId

\* lines 137-141: matches: { none: { userId } }
noneMatches(table, userId, movieId) ==
    \A r \in table : r.movieId = movieId => r.userId # userId

\* the genre filter never added to the where clause
someCategory_never(genres, movieId) == TRUE

\* lines 144-155: categories: { some: { category: { name: { in } } } }, only
\* when the list is not empty
someCategory(genres, movieId) ==
    Len(genres) > 0 => \E c \in categories(movieId) : c \in Range(genres)

\* the movies the where clause selects
whereMovies(table, userId, genres) ==
    {m \in Movies : noneMatches(table, userId, m) /\ someCategory(genres, m)}

\* every ordering of the elements of a finite set
Orderings(S) ==
    {f \in [1..Cardinality(S) -> S] : \A a, b \in DOMAIN f : f[a] = f[b] => a = b}

\* lines 159-170: findMany without orderBy returns, in any order, any `take`
\* of the selected rows (all of them when there are no more than `take`)
findManyMovies(selected, take) ==
    UNION {Orderings(T) : T \in {X \in SUBSET selected :
                                   Cardinality(X) = Min(take, Cardinality(selected))}}

\* line 169
takeOf(limit) == limit * 2

\* lines 123-155: load the preferences, parse them and build the where clause;
\* reading .length of a parsed null throws
getDiscoverMovies_findPreferences(p, userId, limit) ==
    /\ req[p] = Idle
    /\ LET call == [op |-> "getDiscoverMovies", userId |-> userId, limit |-> limit]
           favoriteGenres == parseFavoriteGenres(userPreferences[userId])
       IN  req' = Set(p, IF favoriteGenres.type = "array"
                         THEN call @@ [pc |-> "findMany",
                                       favoriteGenres |-> favoriteGenres.items]
                         ELSE call @@ [pc |-> "done", candidates |-> <<>>,
                                       result |-> TypeError])
    /\ UNCHANGED <<userMatch, now, userPreferences, rest>>

\* lines 159-173: fetch the candidates, shuffle, keep the first `limit`
getDiscoverMovies_findMany(p) ==
    /\ At(p, "getDiscoverMovies", "findMany")
    /\ LET r == req[p]
       IN  \E candidates \in findManyMovies(
                   whereMovies(userMatch, r.userId, r.favoriteGenres),
                   takeOf(r.limit)) :
           \E shuffled \in shuffle(candidates) :
               req' = Set(p, [op |-> r.op, pc |-> "done", userId |-> r.userId,
                              limit |-> r.limit, candidates |-> candidates,
                              result |-> Ok(slice(shuffled, r.limit))])
    /\ UNCHANGED <<userMatch, now, userPreferences, rest>>

\* ------------------------------------------------------------- getMatchlist
\* lines 47-50: { userId, ...(status ? { status } : {}) }
whereMatches(table, userId, status) ==
    {r \in table : r.userId = userId /\ (status # "undefined" => r.status = status)}

\* line 66: orderBy createdAt desc; rows of equal createdAt come in any order
orderByCreatedAtDesc(rows) ==
    {f \in Orderings(rows) :
        \A a, b \in DOMAIN f : a < b => f[a].createdAt >= f[b].createdAt}

\* lines 67-68: skip and take on the ordered rows
skipTake(rows, skip, take) == SubSeq(rows, skip + 1, Min(skip + take, Len(rows)))

\* lines 53-69: what findMany can return
findManyMatches(table, userId, status, page, limit) ==
    {skipTake(f, (page - 1) * limit, limit) :
        f \in orderByCreatedAtDesc(whereMatches(table, userId, status))}

\* line 78: Math.ceil(total / limit)
totalPages(total, limit) == (total + limit - 1) \div limit

NoPager == [active |-> FALSE]

\* the caller asks for page 1, or for the page after the one it has just read
\* of the same list
getMatchlist_call(p, userId, status, limit) ==
    /\ req[p] = Idle
    /\ \/ /\ pager' = [active |-> TRUE, userId |-> userId, status |-> status,
                       limit |-> limit, page |-> 1, seen |-> <<>>,
                       totalPages |-> 0]
       \/ /\ pager.active
          /\ pager.userId = userId /\ pager.status = status /\ pager.limit = limit
          /\ pager.page <= pager.totalPages
          /\ pager' = [pager EXCEPT !.page = pager.page + 1]
    /\ req' = Set(p, [op |-> "getMatchlist", pc |-> "queries", userId |-> userId,
                      status |-> status, page |-> pager'.page, limit |-> limit,
                      pending |-> {"findMany", "count"}, items |-> <<>>,
                      total |-> 0])
    /\ UNCHANGED <<userMatch, now, userPreferences, sh, frontend>>

\* lines 73-79, once both queries of Promise.all have answered
matchlistAfter(r) ==
    IF r.pending = {}
    THEN [op |-> r.op, pc |-> "done", userId |-> r.userId, status |-> r.status,
          page |-> r.page, limit |-> r.limit,
          result |-> Ok([items |-> r.items, total |-> r.total, page |-> r.page,
                         limit |-> r.limit,
                         totalPages |-> totalPages(r.total, r.limit)])]
    ELSE r

\* the caller appends the page it receives to the pages it has
pagerAfter(r) ==
    IF r.pc = "done"
    THEN [pager EXCEPT !.seen = pager.seen \o r.result.value.items,
                       !.totalPages = r.result.value.totalPages]
    ELSE pager

\* lines 53-69
getMatchlist_findMany(p) ==
    /\ At(p, "getMatchlist", "queries")
    /\ "findMany" \in req[p].pending
    /\ \E items \in findManyMatches(userMatch, req[p].userId, req[p].status,
                                    req[p].page, req[p].limit) :
           LET r == matchlistAfter([req[p] EXCEPT !.items = items,
                                        !.pending = req[p].pending \ {"findMany"}])
           IN  /\ req' = Set(p, r)
               /\ pager' = pagerAfter(r)
    /\ UNCHANGED <<userMatch, now, userPreferences, sh, frontend>>

\* line 70
getMatchlist_count(p) ==
    /\ At(p, "getMatchlist", "queries")
    /\ "count" \in req[p].pending
    /\ LET r == matchlistAfter(
                  [req[p] EXCEPT !.total = Cardinality(whereMatches(
                                      userMatch, req[p].userId, req[p].status)),
                                 !.pending = req[p].pending \ {"count"}])
       IN  /\ req' = Set(p, r)
           /\ pager' = pagerAfter(r)
    /\ UNCHANGED <<userMatch, now, userPreferences, sh, frontend>>

\* the caller stops reading the list
pager_leave ==
    /\ pager.active
    /\ \A p \in Procs : req[p] = Idle
    /\ pager' = NoPager
    /\ UNCHANGED <<userMatch, now, userPreferences, req, sh, frontend>>

\* ------------------------------------------------------------ getMatchStats
\* lines 181-183: prisma.userMatch.count({ where: { userId, status } })
countMatches(table, userId, status) ==
    Cardinality({r \in table : r.userId = userId /\ r.status = status})

\* line 180: the three counts of Promise.all are sent together
getMatchStats_call(p, userId) ==
    /\ req[p] = Idle
    /\ req' = Set(p, [op |-> "getMatchStats", pc |-> "counts", userId |-> userId,
                      pending |-> MatchStatus,
                      counts |-> [s \in MatchStatus |-> 0]])
    /\ UNCHANGED <<userMatch, now, userPreferences, rest>>

\* lines 186-191, once the three counts have answered
matchStatsAfter(r) ==
    IF r.pending = {}
    THEN [op |-> r.op, pc |-> "done", userId |-> r.userId,
          result |-> Ok([likes |-> r.counts["like"],
                         dislikes |-> r.counts["dislike"],
                         superlikes |-> r.counts["superlike"],
                         total |-> r.counts["like"] + r.counts["dislike"]
                                   + r.counts["superlike"]])]
    ELSE r

\* lines 181-183: one of the counts is answered from the table as it is by now
getMatchStats_count(p, status) ==
    /\ At(p, "getMatchStats", "counts")
    /\ status \in req[p].pending
    /\ req' = Set(p, matchStatsAfter(
                  [req[p] EXCEPT !.counts[status] =
                                     countMatches(userMatch, req[p].userId, status),
                                 !.pending = req[p].pending \ {status}]))
    /\ UNCHANGED <<userMatch, now, userPreferences, rest>>

\* ---------------------------------------------------------- useMovieRatings
\* UserRating.rating is on a 1-5 scale: its two ends
RatingValues == {1, 5}

\* a UserRating: { movieId, rating } (the optional comment plays no part)
UserRating == [movieId : Movies, rating : RatingValues]

\* new Error(...): what a rejected await throws; the message names the step
Error(message) == [type |-> "error", message |-> message]

\* prev.findIndex((r) => r.movieId === movieId): index from 0, -1 when none
findIndex(prev, movieId) ==
    IF \E i \in 1..Len(prev) : prev[i].movieId = movieId
        THEN (CHOOSE i \in 1..Len(prev) :
                 /\ prev[i].movieId = movieId
                 /\ \A j \in 1..(i - 1) : prev[j].movieId # movieId) - 1
        ELSE -1

\* an updater that appends whatever the list holds
addRatingUpdater_append(prev, rating) == Append(prev, rating)

\* the updater addRating hands to setRatings
addRatingUpdater(prev, rating) ==
    LET existingIndex == findIndex(prev, rating.movieId)
    IN  IF existingIndex >= 0
            THEN [prev EXCEPT ![existingIndex + 1] = rating]
            ELSE Append(prev, rating)

\* the updater removeRating hands to setRatings: prev.filter(...)
removeRatingUpdater(prev, movieId) ==
    LET keep(r) == r.movieId # movieId IN SelectSeq(prev, keep)

\* IUserDataRepository.addRating: the movie's stored rating is replaced, or the
\* rating is stored as a new one
repo_addRating(stored, rating) ==
    IF \E i \in 1..Len(stored) : stored[i].movieId = rating.movieId
        THEN [i \in 1..Len(stored) |->
                 IF stored[i].movieId = rating.movieId THEN rating ELSE stored[i]]
        ELSE stored \o <<rating>>

\* IUserDataRepository.removeRating: the movie's stored rating is dropped
repo_removeRating(stored, movieId) ==
    LET other(r) == r.movieId # movieId IN SelectSeq(stored, other)

\* IUserDataRepository.getRatings
repo_getRatings(stored) == stored

\* the call slot c takes value r
Call(c, r) == [calls EXCEPT ![c] = r]

\* hook function op of slot c waits on the promise named pc
Awaits(c, op, pc) == calls[c].op = op /\ calls[c].pc = pc

\* the promise of slot c has settled, rejected when thrown is an Error
Settled(op, thrown) == [op |-> op, pc |-> "done", thrown |-> thrown]

\* a catch block that keeps the error to itself
catch_swallow(c, message) ==
    /\ error' = Error(message)
    /\ calls' = Call(c, Settled(calls[c].op, Null))
    /\ UNCHANGED <<ratings, loading, repository, mount>>

\* the catch block of addRating, removeRating and clearRatings:
\* setError(error); throw error
catch(c, message) ==
    /\ error' = Error(message)
    /\ calls' = Call(c, Settled(calls[c].op, Error(message)))
    /\ UNCHANGED <<ratings, loading, repository, mount>>

\* useEffect(() => { loadRatings() }): up to await repo.getRatings()
loadRatings_call ==
    /\ mount = "unmounted"
    /\ loading' = TRUE
    /\ mount' = "getRatings"
    /\ UNCHANGED <<ratings, error, repository, calls, backend, screen>>

\* repo.getRatings() settles: setRatings(loadedRatings), or setError; finally
\* setLoading(false)
loadRatings_getRatings(ok) ==
    /\ mount = "getRatings"
    /\ IF ok
          THEN ratings' = repo_getRatings(repository) /\ UNCHANGED error
          ELSE error' = Error("getRatings") /\ UNCHANGED ratings
    /\ loading' = FALSE
    /\ mount' = "mounted"
    /\ UNCHANGED <<repository, calls, backend, screen>>

\* addRating(rating) is called: up to await repo.addRating(rating)
addRating_call(c, rating) ==
    /\ mount # "unmounted"
    /\ calls[c] = Idle
    /\ calls' = Call(c, [op |-> "addRating", pc |-> "repo", rating |-> rating])
    /\ UNCHANGED <<ratings, loading, error, repository, mount, backend, screen>>

\* repo.addRating settles; then the request to the backend leaves
addRating_repo(c, ok) ==
    /\ Awaits(c, "addRating", "repo")
    /\ IF ok
          THEN /\ repository' = repo_addRating(repository, calls[c].rating)
               /\ calls' = Call(c, [calls[c] EXCEPT !.pc = "backend"])
               /\ UNCHANGED <<ratings, loading, error, mount>>
          ELSE catch(c, "repo")
    /\ UNCHANGED <<backend, screen>>

\* ratingService.createOrUpdateRating settles; then the first invalidation starts
addRating_backend(c, ok) ==
    /\ Awaits(c, "addRating", "backend")
    /\ IF ok
          THEN /\ calls' = Call(c, [calls[c] EXCEPT !.pc = "invalidateReviews"])
               /\ UNCHANGED <<ratings, loading, error, repository, mount>>
          ELSE catch(c, "backend")
    /\ UNCHANGED <<backend, screen>>

\* invalidateQueries(user.reviews) settles; then the second invalidation starts
addRating_invalidateReviews(c, ok) ==
    /\ Awaits(c, "addRating", "invalidateReviews")
    /\ IF ok
          THEN /\ calls' = Call(c, [calls[c] EXCEPT !.pc = "invalidateRatings"])
               /\ UNCHANGED <<ratings, loading, error, repository, mount>>
          ELSE catch(c, "invalidate")
    /\ UNCHANGED <<backend, screen>>

\* invalidateQueries(ratings.all) settles; then setRatings(updater)
addRating_invalidateRatings(c, ok) ==
    /\ Awaits(c, "addRating", "invalidateRatings")
    /\ IF ok
          THEN /\ ratings' = addRatingUpdater(ratings, calls[c].rating)
               /\ calls' = Call(c, Settled("addRating", Null))
               /\ UNCHANGED <<loading, error, repository, mount>>
          ELSE catch(c, "invalidate")
    /\ UNCHANGED <<backend, screen>>

\* removeRating(movieId) is called: up to await repo.removeRating(movieId)
removeRating_call(c, movieId) ==
    /\ mount # "unmounted"
    /\ calls[c] = Idle
    /\ calls' = Call(c, [op |-> "removeRating", pc |-> "repo", movieId |-> movieId])
    /\ UNCHANGED <<ratings, loading, error, repository, mount, backend, screen>>

\* repo.removeRating settles; then setRatings(updater)
removeRating_repo(c, ok) ==
    /\ Awaits(c, "removeRating", "repo")
    /\ IF ok
          THEN /\ repository' = repo_removeRating(repository, calls[c].movieId)
               /\ ratings' = removeRatingUpdater(ratings, calls[c].movieId)
               /\ calls' = Call(c, Settled("removeRating", Null))
               /\ UNCHANGED <<loading, error, mount>>
          ELSE catch(c, "repo")
    /\ UNCHANGED <<backend, screen>>

\* clearRatings() is called: the loop runs over the ratings of the render that
\* made the callback; with none of them setRatings([]) follows at once
clearRatings_call(c) ==
    /\ mount # "unmounted"
    /\ calls[c] = Idle
    /\ IF ratings = <<>>
          THEN /\ ratings' = <<>>
               /\ calls' = Call(c, Settled("clearRatings", Null))
          ELSE /\ calls' = Call(c, [op |-> "clearRatings", pc |-> "repo",
                                    todo |-> ratings])
               /\ UNCHANGED ratings
    /\ UNCHANGED <<loading, error, repository, mount, backend, screen>>

\* repo.removeRating of the loop settles; then the next one starts, or
\* setRatings([]) after the last
clearRatings_repo(c, ok) ==
    /\ Awaits(c, "clearRatings", "repo")
    /\ IF ok
          THEN /\ repository' = repo_removeRating(repository,
                                                  Head(calls[c].todo).movieId)
               /\ IF Tail(calls[c].todo) = <<>>
                     THEN /\ ratings' = <<>>
                          /\ calls' = Call(c, Settled("clearRatings", Null))
                     ELSE /\ calls' = Call(c, [calls[c] EXCEPT
                                                  !.todo = Tail(calls[c].todo)])
                          /\ UNCHANGED ratings
               /\ UNCHANGED <<loading, error, mount>>
          ELSE catch(c, "repo")
    /\ UNCHANGED <<backend, screen>>

\* the caller has its promise back: the slot is free
Resume(c) ==
    /\ calls[c].op # "idle"
    /\ calls[c].pc = "done"
    /\ calls' = Call(c, Idle)
    /\ UNCHANGED <<ratings, loading, error, repository, mount, backend, screen>>

\* ------------------------------------------------------- MovieListContainer
\* the user of the session: one of the users
Me == CHOOSE u \in Users : \A v \in Users : u <= v

\* const currentMovie = discoverMovies[currentMovieIndex] || null
currentMovie ==
    IF currentMovieIndex < Len(discoverMovies)
        THEN discoverMovies[currentMovieIndex + 1] ELSE Null

\* advanceToNextMovie: setCurrentMovieIndex((prev) => prev + 1)
advanceToNextMovie(prev) == prev + 1

\* createMatch(movieId, status) of useMatches: the request leaves
createMatch(movieId, status) ==
    mutations \cup {[movieId |-> movieId, status |-> status]}

\* GET /api/matches/discover: the movies the user has no match for, shuffled
discover(table, userId) ==
    {[i \in DOMAIN ids |-> [id |-> ids[i]]] :
        ids \in Orderings(whereMovies(table, userId, <<>>))}

\* the main card is on screen and the match modal is not over it
CardShown == Len(discoverMovies) # 0 /\ currentMovie # Null /\ ~showMatchModal

\* the panel "no more movies" is on screen
NoMoreMovies ==
    Len(discoverMovies) # 0 /\ currentMovieIndex >= Len(discoverMovies)

\* handleMatch: like the movie of the card and open the modal
handleMatch ==
    /\ CardShown
    /\ mutations' = createMatch(currentMovie.id, "like")
    /\ matchedMovie' = currentMovie
    /\ showMatchModal' = TRUE
    /\ UNCHANGED <<discoverMovies, currentMovieIndex, stale, hook, backend>>

\* handleSkip: dislike the movie of the card and advance
handleSkip ==
    /\ CardShown
    /\ mutations' = createMatch(currentMovie.id, "dislike")
    /\ currentMovieIndex' = advanceToNextMovie(currentMovieIndex)
    /\ UNCHANGED <<discoverMovies, showMatchModal, matchedMovie, stale, hook, backend>>

\* handleCloseMatchModal: close the modal and advance
handleCloseMatchModal ==
    /\ showMatchModal /\ matchedMovie # Null
    /\ showMatchModal' = FALSE
    /\ matchedMovie' = Null
    /\ currentMovieIndex' = advanceToNextMovie(currentMovieIndex)
    /\ UNCHANGED <<discoverMovies, mutations, stale, hook, backend>>

\* a createMatch request is served (upsertMatch) and its success invalidates
\* the discover query
createMatch_settle(mutation) ==
    /\ mutation \in mutations
    /\ userMatch' = upsertWrite(userMatch,
                                MatchesOf(userMatch, Me, mutation.movieId) # {},
                                Me, mutation.movieId, mutation.status, now).table
    /\ mutations' = mutations \ {mutation}
    /\ stale' = TRUE
    /\ UNCHANGED <<now, userPreferences, req, pager, sh, hook, discoverMovies,
                   currentMovieIndex, showMatchModal, matchedMovie>>

\* the discover query is fetched again: the new list replaces the old
discover_refetch ==
    /\ stale
    /\ discoverMovies' \in discover(userMatch, Me)
    /\ stale' = FALSE
    /\ UNCHANGED <<currentMovieIndex, showMatchModal, matchedMovie, mutations,
                   hook, backend>>

\* a millisecond passes
Tick ==
    /\ now < MaxNow
    /\ now' = now + 1
    /\ UNCHANGED <<userMatch, userPreferences, req, rest>>

\* the response is sent (or the error handler has answered): the slot is free
Return(p) ==
    /\ req[p].op # "idle"
    /\ req[p].pc = "done"
    /\ req' = Set(p, Idle)
    /\ UNCHANGED <<userMatch, now, userPreferences, rest>>

\* ----------------------------------------------------------- specifications
\* MovieListContainer before the discover query has answered
NoScreen ==
    /\ discoverMovies = <<>>
    /\ currentMovieIndex = 0
    /\ showMatchModal = FALSE
    /\ matchedMovie = Null
    /\ mutations = {}
    /\ stale = FALSE

\* the browser before the component mounts
NoFrontend ==
    /\ ratings = <<>>
    /\ loading = FALSE
    /\ error = Null
    /\ repository = <<>>
    /\ calls = [c \in Procs |-> Idle]
    /\ mount = "unmounted"
    /\ NoScreen

\* a preferences row, or none, per user
PreferenceRows == {Null} \cup {[favoriteGenres |-> t] : t \in FavoriteGenresTexts}

NoShuffle == [pc |-> "idle", items |-> <<>>, result |-> <<>>, alias |-> FALSE, i |-> 0]

Init ==
    /\ userMatch = {}
    /\ now = 0
    /\ userPreferences \in [Users -> PreferenceRows]
    /\ req = [p \in Procs |-> Idle]
    /\ pager = NoPager
    /\ sh = NoShuffle
    /\ NoFrontend

\* the handlers of one request at a time, in any order and with any arguments
Next ==
    \E p \in {1} :
        \/ \E u \in Users, m \in MovieIds, s \in MatchStatus :
               upsertMatch_findMovie(p, u, m, s)
        \/ upsertMatch_select(p)
        \/ upsertMatch_write(p)
        \/ \E u \in Users, m \in MovieIds : getMatchStatus(p, u, m)
        \/ \E u \in Users, l \in 1..MaxLimit : getDiscoverMovies_findPreferences(p, u, l)
        \/ getDiscoverMovies_findMany(p)
        \/ \E u \in Users, m \in MovieIds : deleteMatch_findUnique(p, u, m)
        \/ deleteMatch_delete(p)
        \/ Return(p)

Spec == Init /\ [][Next]_vars

\* the requests of one user, two at a time: the queries of two handlers interleave
InitNoPreferences ==
    /\ userMatch = {}
    /\ now = 0
    /\ userPreferences = [u \in Users |-> Null]
    /\ req = [p \in Procs |-> Idle]
    /\ pager = NoPager
    /\ sh = NoShuffle
    /\ NoFrontend

NextConcurrent ==
    \E p \in Procs :
        \/ \E m \in MovieIds, s \in MatchStatus : upsertMatch_findMovie(p, 1, m, s)
        \/ upsertMatch_select(p)
        \/ upsertMatch_write(p)
        \/ \E m \in MovieIds : deleteMatch_findUnique(p, 1, m)
        \/ deleteMatch_delete(p)
        \/ Return(p)

SpecConcurrent == InitNoPreferences /\ [][NextConcurrent]_vars

\* the matchlist read page by page, the clock running; while the caller reads,
\* no request writes, so the pages of one reading are pages of one table
NextMatchlist ==
    \/ Tick
    \/ pager_leave
    \/ \E p \in {1} :
        \/ /\ ~pager.active
           /\ \/ \E u \in Users, m \in Movies, s \in MatchStatus :
                     upsertMatch_findMovie(p, u, m, s)
              \/ \E u \in Users, m \in Movies : deleteMatch_findUnique(p, u, m)
        \/ upsertMatch_select(p)
        \/ upsertMatch_write(p)
        \/ \E u \in Users, s \in MatchStatus \cup {"undefined"}, l \in 1..MaxLimit :
               getMatchlist_call(p, u, s, l)
        \/ getMatchlist_findMany(p)
        \/ getMatchlist_count(p)
        \/ deleteMatch_delete(p)
        \/ Return(p)

SpecMatchlist == InitNoPreferences /\ [][NextMatchlist]_vars

\* getMatchStats beside the writes of another request; while the counts are out,
\* a write changes the status of a row or nothing, so that the number of rows is
\* the same at every moment of the call
StatsInFlight == \E q \in Procs : At(q, "getMatchStats", "counts")

NextStats ==
    \E p \in Procs :
        \/ \E u \in Users, m \in Movies, s \in MatchStatus :
               upsertMatch_findMovie(p, u, m, s)
        \/ upsertMatch_select(p)
        \/ /\ upsertMatch_write(p)
           /\ StatsInFlight => Cardinality(userMatch') = Cardinality(userMatch)
        \/ \E u \in Users : getMatchStats_call(p, u)
        \/ \E s \in MatchStatus : getMatchStats_count(p, s)
        \/ Return(p)

SpecStats == InitNoPreferences /\ [][NextStats]_vars

\* shuffle() alone, on every array of up to 2 * MaxLimit movie ids
\* the hook in a browser whose repository holds the ratings of earlier visits:
\* no movie twice
NoDuplicate(list) ==
    \A i, j \in 1..Len(list) : list[i].movieId = list[j].movieId => i = j

StoredRatings == {l \in UNION {[1..n -> UserRating] : n \in 0..MaxMovie} : NoDuplicate(l)}

InitRatings ==
    /\ userMatch = {}
    /\ now = 0
    /\ userPreferences = [u \in Users |-> Null]
    /\ req = [p \in Procs |-> Idle]
    /\ pager = NoPager
    /\ sh = NoShuffle
    /\ ratings = <<>>
    /\ loading = FALSE
    /\ error = Null
    /\ repository \in StoredRatings
    /\ calls = [c \in Procs |-> Idle]
    /\ mount = "unmounted"
    /\ NoScreen

\* the mount-time load and the calls of the hook's functions, one at a time,
\* every await resolving or rejecting
NextRatings ==
    \/ loadRatings_call
    \/ \E ok \in BOOLEAN : loadRatings_getRatings(ok)
    \/ \E c \in {1} :
        \/ \E rating \in UserRating : addRating_call(c, rating)
        \/ \E ok \in BOOLEAN : addRating_repo(c, ok)
        \/ \E ok \in BOOLEAN : addRating_backend(c, ok)
        \/ \E ok \in BOOLEAN : addRating_invalidateReviews(c, ok)
        \/ \E ok \in BOOLEAN : addRating_invalidateRatings(c, ok)
        \/ \E movieId \in Movies : removeRating_call(c, movieId)
        \/ \E ok \in BOOLEAN : removeRating_repo(c, ok)
        \/ clearRatings_call(c)
        \/ \E ok \in BOOLEAN : clearRatings_repo(c, ok)
        \/ Resume(c)

SpecRatings == InitRatings /\ [][NextRatings]_vars

\* the same with two calls of the hook's functions under way at a time
NextRatingsConcurrent ==
    \/ loadRatings_call
    \/ \E ok \in BOOLEAN : loadRatings_getRatings(ok)
    \/ \E c \in Procs :
        \/ \E rating \in UserRating : addRating_call(c, rating)
        \/ \E ok \in BOOLEAN : addRating_repo(c, ok)
        \/ \E ok \in BOOLEAN : addRating_backend(c, ok)
        \/ \E ok \in BOOLEAN : addRating_invalidateReviews(c, ok)
        \/ \E ok \in BOOLEAN : addRating_invalidateRatings(c, ok)
        \/ \E movieId \in Movies : removeRating_call(c, movieId)
        \/ \E ok \in BOOLEAN : removeRating_repo(c, ok)
        \/ clearRatings_call(c)
        \/ \E ok \in BOOLEAN : clearRatings_repo(c, ok)
        \/ Resume(c)

SpecRatingsConcurrent == InitRatings /\ [][NextRatingsConcurrent]_vars

\* the discover screen once the first answer of the discover query is in, for
\* a user with or without likes of earlier visits
InitScreen ==
    /\ userMatch \in SUBSET {MatchRow(Me, m, "like", 0) : m \in Movies}
    /\ now = 0
    /\ userPreferences = [u \in Users |-> Null]
    /\ req = [p \in Procs |-> Idle]
    /\ pager = NoPager
    /\ sh = NoShuffle
    /\ ratings = <<>>
    /\ loading = FALSE
    /\ error = Null
    /\ repository = <<>>
    /\ calls = [c \in Procs |-> Idle]
    /\ mount = "unmounted"
    /\ discoverMovies \in discover(userMatch, Me)
    /\ currentMovieIndex = 0
    /\ showMatchModal = FALSE
    /\ matchedMovie = Null
    /\ mutations = {}
    /\ stale = FALSE

\* the user's clicks, the requests they send and the refetch after each
NextScreen ==
    \/ handleMatch
    \/ handleSkip
    \/ handleCloseMatchModal
    \/ \E mutation \in mutations : createMatch_settle(mutation)
    \/ discover_refetch

SpecScreen == InitScreen /\ [][NextScreen]_vars

ShuffleInputs == UNION {[1..n -> Movies] : n \in 0..takeOf(MaxLimit)}

InitShuffle ==
    /\ userMatch = {}
    /\ now = 0
    /\ userPreferences = [u \in Users |-> Null]
    /\ req = [p \in Procs |-> Idle]
    /\ pager = NoPager
    /\ \E items \in ShuffleInputs :
           sh = [pc |-> "call", items |-> items, result |-> <<>>, alias |-> FALSE,
                 i |-> 0]
    /\ NoFrontend

NextShuffle ==
    \/ shuffle_copy
    \/ \E j \in 1..takeOf(MaxLimit) : shuffle_swap(j)
    \/ shuffle_return

SpecShuffle == InitShuffle /\ [][NextShuffle]_vars

\* ------------------------------------------------------------------ claims
Done(p, op) == req[p].op = op /\ req[p].pc = "done"
Succeeded(p, op) == Done(p, op) /\ req[p].result.type = "ok"

\* C1: the movies getDiscoverMovies returns have no UserMatch row of the asking
\* user, of any status, after any sequence of upsertMatch and deleteMatch calls
C1_DiscoverExcludesMatched ==
    \A p \in Procs :
        Succeeded(p, "getDiscoverMovies") =>
            \A k \in DOMAIN req[p].result.value :
                ~\E r \in userMatch : /\ r.userId = req[p].userId
                                      /\ r.movieId = req[p].result.value[k]

\* a discover answer that holds a movie while the same user has a match on another
C1_Witness ==
    \E p \in Procs :
        /\ Succeeded(p, "getDiscoverMovies")
        /\ Len(req[p].result.value) > 0
        /\ \E r \in userMatch : r.userId = req[p].userId

\* C2, first half: no two UserMatch rows share a (userId, movieId) pair
UniquePerPair ==
    \A a, b \in userMatch : a.userId = b.userId /\ a.movieId = b.movieId => a = b

\* C2, second half: the write of an upsertMatch whose pair has a row changes that
\* row's status and adds no row
UpdatesExistingRow ==
    \A p \in Procs :
        ( /\ At(p, "upsertMatch", "write")
          /\ MatchesOf(userMatch, req[p].userId, req[p].movieId) # {}
          /\ req'[p].pc = "done"
          /\ req'[p].result.type = "ok" ) =>
            /\ Cardinality(userMatch') = Cardinality(userMatch)
            /\ \A r \in MatchesOf(userMatch', req[p].userId, req[p].movieId) :
                   r.status = req[p].status
            /\ \A r \in userMatch' :
                   r.userId # req[p].userId \/ r.movieId # req[p].movieId =>
                       r \in userMatch

WritesPair(u, m) ==
    \E p \in Procs :
        /\ At(p, "upsertMatch", "write") \/ At(p, "deleteMatch", "delete")
        /\ req[p].userId = u
        /\ req[p].movieId = m

\* the step answers a getMatchStatus(u, m) with the row of (u, m), or with null
AnswersStatus(p) ==
    req[p] = Idle /\ req'[p].op = "getMatchStatus" =>
        /\ req'[p].pc = "done"
        /\ req'[p].result.type = "ok"
        /\ IF \E r \in userMatch : /\ r.userId = req'[p].userId
                                   /\ r.movieId = req'[p].movieId
           THEN /\ req'[p].result.value \in userMatch
                /\ req'[p].result.value.userId = req'[p].userId
                /\ req'[p].result.value.movieId = req'[p].movieId
           ELSE req'[p].result.value = Null

\* C3: a successful upsertMatch(u, m, s) leaves a row of (u, m) with status s; no
\* step other than an upsertMatch or deleteMatch write on (u, m) changes the rows
\* of (u, m); getMatchStatus(u, m) answers with the row the table holds
C3_CreatedMatchRetrievable ==
    [][ /\ \A p \in Procs :
              ( /\ At(p, "upsertMatch", "write")
                /\ req'[p].pc = "done"
                /\ req'[p].result.type = "ok" ) =>
                  /\ \E r \in userMatch' : /\ r.userId = req[p].userId
                                           /\ r.movieId = req[p].movieId
                                           /\ r.status = req[p].status
                                           /\ req'[p].result.value = r
                  /\ \A r \in userMatch' :
                         r.userId = req[p].userId /\ r.movieId = req[p].movieId =>
                             r.status = req[p].status
        /\ \A u \in Users, m \in MovieIds :
              MatchesOf(userMatch', u, m) # MatchesOf(userMatch, u, m) =>
                  WritesPair(u, m)
        /\ \A p \in Procs : AnswersStatus(p) ]_vars

\* getMatchStatus has answered with a row whose status a later upsert has set
C3_Witness ==
    \E p \in Procs :
        /\ Succeeded(p, "getMatchStatus")
        /\ req[p].result.value # Null
        /\ req[p].result.value.status = "superlike"

\* C4: a successful deleteMatch(u, m) leaves no row of (u, m); a row of (u, m)
\* appears only by the write of an upsertMatch(u, m, _); while there is none,
\* getMatchStatus(u, m) answers null and a discover query that is not cut short by
\* `take` and carries no genre filter fetches m for u
C4_DeletedMatchGone ==
    [][ /\ \A p \in Procs :
              ( /\ At(p, "deleteMatch", "delete")
                /\ req'[p].pc = "done"
                /\ req'[p].result.type = "ok" ) =>
                  ~\E r \in userMatch' : /\ r.userId = req[p].userId
                                         /\ r.movieId = req[p].movieId
        /\ \A u \in Users, m \in MovieIds :
              ( /\ ~\E r \in userMatch : r.userId = u /\ r.movieId = m
                /\ \E r \in userMatch' : r.userId = u /\ r.movieId = m ) =>
                  \E p \in Procs : /\ At(p, "upsertMatch", "write")
                                   /\ req[p].userId = u
                                   /\ req[p].movieId = m
        /\ \A p \in Procs :
              ( /\ req[p] = Idle
                /\ req'[p].op = "getMatchStatus"
                /\ ~\E r \in userMatch : /\ r.userId = req'[p].userId
                                         /\ r.movieId = req'[p].movieId ) =>
                  req'[p].result = Ok(Null)
        /\ \A p \in Procs :
              ( /\ At(p, "getDiscoverMovies", "findMany")
                /\ req[p].favoriteGenres = <<>>
                /\ req'[p].pc = "done"
                /\ Len(req'[p].candidates) < 2 * req[p].limit ) =>
                  \A m \in Movies :
                      (~\E r \in userMatch : /\ r.userId = req[p].userId
                                             /\ r.movieId = m) =>
                          \E k \in DOMAIN req'[p].candidates :
                              req'[p].candidates[k] = m ]_vars

\* a deleteMatch has succeeded while other rows stay in the table
C4_Witness ==
    \E p \in Procs :
        /\ Succeeded(p, "deleteMatch")
        /\ MatchesOf(userMatch, req[p].userId, req[p].movieId) = {}
        /\ userMatch # {}

\* the favoriteGenres column of the user parses to a list that is not empty
HasGenreList(u) ==
    /\ userPreferences[u] # Null
    /\ userPreferences[u].favoriteGenres # ""
    /\ JSONparse(userPreferences[u].favoriteGenres).type = "array"
    /\ Len(JSONparse(userPreferences[u].favoriteGenres).items) > 0

\* no preferences row, an empty column, an empty list, or text that does not parse
HasNoGenreList(u) ==
    \/ userPreferences[u] = Null
    \/ userPreferences[u].favoriteGenres = ""
    \/ JSONparse(userPreferences[u].favoriteGenres).type = "SyntaxError"
    \/ JSONparse(userPreferences[u].favoriteGenres) = [type |-> "array", items |-> <<>>]

\* C5: with a favoriteGenres list that is not empty, every movie getDiscoverMovies
\* returns has a category named in the list; without one, the genres restrict
\* nothing: a query not cut short by `take` fetches every movie the user has no
\* match on
C5_GenreFilterOptional ==
    \A p \in Procs :
        Succeeded(p, "getDiscoverMovies") =>
            /\ HasGenreList(req[p].userId) =>
                   \A k \in DOMAIN req[p].result.value :
                       \E c \in categories(req[p].result.value[k]) :
                           c \in Range(JSONparse(
                               userPreferences[req[p].userId].favoriteGenres).items)
            /\ ( /\ HasNoGenreList(req[p].userId)
                 /\ Len(req[p].candidates) < 2 * req[p].limit ) =>
                   Range(req[p].candidates) =
                       {m \in Movies : ~\E r \in userMatch : /\ r.userId = req[p].userId
                                                            /\ r.movieId = m}

\* a user with a genre list got a movie of that genre while a movie of another
\* genre, which the user has no match on either, stayed out
C5_Witness ==
    \E p \in Procs :
        /\ Succeeded(p, "getDiscoverMovies")
        /\ HasGenreList(req[p].userId)
        /\ Len(req[p].result.value) > 0
        /\ \E m \in Movies :
               /\ \A r \in userMatch : r.userId = req[p].userId => r.movieId # m
               /\ m \notin Range(req[p].candidates)

C7_UpsertUnknownMovie ==
    [][ \A p \in Procs :
            ( /\ req[p] = Idle
              /\ req'[p].op = "upsertMatch"
              /\ req'[p].movieId \notin Movies ) =>
                /\ req'[p].pc = "done"
                /\ req'[p].result.type = "AppError"
                /\ req'[p].result.statusCode = 404
                /\ req'[p].result.message = "Movie not found"
                /\ userMatch' = userMatch ]_vars

\* an upsertMatch for an unknown movie has failed with 404 on a table that holds rows
C7_Witness ==
    \E p \in Procs :
        /\ Done(p, "upsertMatch")
        /\ req[p].movieId \notin Movies
        /\ req[p].result.type = "AppError"
        /\ userMatch # {}

\* the arrays hold the same elements the same number of times
SameElements(a, b) ==
    /\ Len(a) = Len(b)
    /\ \A x \in Range(a) \cup Range(b) :
           Cardinality({k \in DOMAIN a : a[k] = x}) =
               Cardinality({k \in DOMAIN b : b[k] = x})

\* C8: whatever the random draws, shuffle(items) returns an array of the same
\* length and the same elements with the same multiplicities, and the array it
\* was given is never written
C8_ShufflePermutes ==
    /\ [](sh.pc = "done" => SameElements(sh.result, sh.items))
    /\ [][sh.pc # "idle" => sh'.items = sh.items]_vars

\* a shuffle of three or more elements has returned them in another order
C8_Witness ==
    /\ sh.pc = "done"
    /\ Len(sh.items) >= 3
    /\ sh.result # sh.items
    /\ sh.result[1] = sh.items[Len(sh.items)]

\* C9: deleteMatch(u, m) without a row of (u, m) ends at once with the 404
\* AppError 'Match not found' and the table unchanged; with a row, it removes
\* that row and no other
C9_DeleteMatch ==
    [][ \A p \in Procs :
          /\ ( /\ req[p] = Idle
               /\ req'[p].op = "deleteMatch" ) =>
                 /\ userMatch' = userMatch
                 /\ IF \E r \in userMatch : /\ r.userId = req'[p].userId
                                            /\ r.movieId = req'[p].movieId
                    THEN req'[p].pc = "delete"
                    ELSE /\ req'[p].pc = "done"
                         /\ req'[p].result.type = "AppError"
                         /\ req'[p].result.statusCode = 404
                         /\ req'[p].result.message = "Match not found"
          /\ ( /\ At(p, "deleteMatch", "delete")
               /\ \E r \in userMatch : /\ r.userId = req[p].userId
                                       /\ r.movieId = req[p].movieId ) =>
                 /\ req'[p].pc = "done"
                 /\ req'[p].result.type = "ok"
                 /\ req'[p].result.value \in userMatch
                 /\ req'[p].result.value.userId = req[p].userId
                 /\ req'[p].result.value.movieId = req[p].movieId
                 /\ userMatch' = userMatch \ {req'[p].result.value}
                 /\ Cardinality(userMatch') = Cardinality(userMatch) - 1 ]_vars

\* a deleteMatch has removed one row of a user and left the user's other row
C9_Witness ==
    \E p \in Procs :
        /\ Succeeded(p, "deleteMatch")
        /\ \E r \in userMatch : r.userId = req[p].userId /\ r.movieId # req[p].movieId

\* a deleteMatch has failed with 404 on a table that holds rows
C9_WitnessNotFound ==
    \E p \in Procs :
        /\ Done(p, "deleteMatch")
        /\ req[p].result.type = "AppError"
        /\ userMatch # {}

\* the rows getMatchlist's filter selects: the user's, of the status when one is given
MatchingRows(userId, status) ==
    {r \in userMatch : r.userId = userId /\ (status \in MatchStatus => r.status = status)}

\* C10: getMatchlist returns at most limit items, all of the user and of the status
\* asked for; total counts the rows of that filter and totalPages is
\* ceil(total / limit); read in order on an unchanged table, pages 1..totalPages
\* hold every such row exactly once, by createdAt descending
C10_MatchlistPages ==
    \A p \in Procs :
        Succeeded(p, "getMatchlist") =>
            LET v    == req[p].result.value
                rows == MatchingRows(req[p].userId, req[p].status)
            IN  /\ Len(v.items) <= req[p].limit
                /\ Range(v.items) \subseteq rows
                /\ v.total = Cardinality(rows)
                /\ v.totalPages * req[p].limit >= v.total
                /\ (v.totalPages - 1) * req[p].limit < v.total
                /\ (pager.active /\ pager.page = v.totalPages) =>
                       /\ Range(pager.seen) = rows
                       /\ Len(pager.seen) = Cardinality(rows)
                       /\ \A a, b \in DOMAIN pager.seen :
                              a < b => pager.seen[a].createdAt >= pager.seen[b].createdAt

\* C11: getMatchStats returns total = likes + dislikes + superlikes, and total is
\* the number of UserMatch rows of the user at a moment of the call, also when an
\* upsertMatch changes the status of one of the user's rows between the counts
C11_StatsTotal ==
    [][ \A p \in Procs :
            ( /\ At(p, "getMatchStats", "counts")
              /\ req'[p].pc = "done" ) =>
                LET v == req'[p].result.value
                IN  /\ v.total = v.likes + v.dislikes + v.superlikes
                    /\ v.total = Cardinality({r \in userMatch :
                                                 r.userId = req[p].userId}) ]_vars

\* the positions of the list that hold a rating of the movie
PositionsOf(list, movieId) == {i \in 1..Len(list) : list[i].movieId = movieId}

\* the promise of slot c settles in this step, fulfilled
Fulfils(c, op) ==
    calls[c].op = op /\ calls[c].pc # "done" /\ calls'[c] = Settled(op, Null)

\* a fulfilled addRating of a rated movie puts the rating where the movie's
\* entry was and leaves the others; of an unrated movie, appends the rating
AddReplacesOrAppends ==
    \A c \in Procs : Fulfils(c, "addRating") =>
        LET rating == calls[c].rating
        IN  IF PositionsOf(ratings, rating.movieId) # {}
                THEN /\ Len(ratings') = Len(ratings)
                     /\ \A i \in 1..Len(ratings) :
                            ratings'[i] = IF i \in PositionsOf(ratings, rating.movieId)
                                             THEN rating ELSE ratings[i]
                ELSE /\ Len(ratings') = Len(ratings) + 1
                     /\ ratings'[Len(ratings')] = rating
                     /\ \A i \in 1..Len(ratings) : ratings'[i] = ratings[i]

\* a fulfilled removeRating leaves no entry of the movie and every other entry,
\* in the order they had
RemoveDropsMovie ==
    \A c \in Procs : Fulfils(c, "removeRating") =>
        LET gone == PositionsOf(ratings, calls[c].movieId)
            before(i) == Cardinality({j \in gone : j < i})
        IN  /\ Len(ratings') = Len(ratings) - Cardinality(gone)
            /\ PositionsOf(ratings', calls[c].movieId) = {}
            /\ \A i \in (1..Len(ratings)) \ gone : ratings'[i - before(i)] = ratings[i]

\* C12: the ratings state never holds two entries of one movie; addRating of a
\* rated movie replaces its entry in place and keeps the length of the list,
\* addRating of an unrated movie appends one entry, and removeRating(movieId)
\* removes the entries of that movie and no other.
C12_OneRatingPerMovie ==
    /\ []NoDuplicate(ratings)
    /\ [][AddReplacesOrAppends /\ RemoveDropsMovie]_vars

\* every movie is rated and the last addRating is fulfilled, nothing has failed
C12_Witness ==
    /\ mount = "mounted"
    /\ error = Null
    /\ Len(ratings) = MaxMovie
    /\ calls[1] = Settled("addRating", Null)

\* the promise of slot c settles in this step, rejected
Rejects(c) ==
    /\ calls[c].op \in {"addRating", "removeRating", "clearRatings"}
    /\ calls[c].pc # "done"
    /\ calls'[c].pc = "done"
    /\ calls'[c].thrown # Null

\* slot c waits on the last promise of its function
LastAwait(c) ==
    \/ Awaits(c, "addRating", "invalidateRatings")
    \/ Awaits(c, "removeRating", "repo")
    \/ Awaits(c, "clearRatings", "repo") /\ Len(calls[c].todo) = 1

\* C13: a step of addRating, removeRating or clearRatings that fails stores the
\* error in the error state and rejects the call with it, and leaves the ratings
\* state as it was; no step before the last await of a call touches the ratings
\* state, and a call is fulfilled by its last await only.
C13_FailureKeepsRatings ==
    [][\A c \in Procs :
          /\ Rejects(c) =>
                /\ calls'[c].thrown.type = "error"
                /\ error' = calls'[c].thrown
                /\ ratings' = ratings
          /\ (calls[c] # Idle /\ calls[c].pc # "done" /\ calls'[c] # calls[c]) =>
                /\ ~LastAwait(c) => calls'[c].pc # "done" \/ calls'[c].thrown # Null
                /\ ratings' # ratings => LastAwait(c) /\ calls'[c].thrown = Null
      ]_vars

\* addRating has failed at the backend after the repository took the rating
C13_Witness ==
    /\ calls[1] = Settled("addRating", Error("backend"))
    /\ error = Error("backend")
    /\ ratings = <<>>
    /\ repository # <<>>

\* no call of the hook and no load is under way
Quiescent ==
    /\ mount = "mounted"
    /\ \A c \in Procs : calls[c] = Idle \/ calls[c].pc = "done"

\* C14: whenever no operation is in flight, the ratings state holds the ratings
\* the local repository holds.
C14_RatingsMatchRepository ==
    Quiescent => Range(ratings) = Range(repository)

\* a like or a dislike of the movie has been sent or stored
Decided(movieId) ==
    \/ \E mutation \in mutations : mutation.movieId = movieId
    \/ MatchesOf(userMatch, Me, movieId) # {}

\* C15: no movie of the feed is skipped: when the panel "no more movies" is
\* reached, every movie of the discover list has been the current card and has
\* received a like or a dislike.
C15_NoMovieSkipped ==
    NoMoreMovies => \A i \in 1..Len(discoverMovies) : Decided(discoverMovies[i].id)

====
